---- MODULE Spec2Model ----
(***************************************************************************)
(* Model of the LPMP device service's decoding pipeline:                   *)
(*   - internal/frameparser/sharding.go : ProcessFrame, the per-sensor     *)
(*     fragment reassembly with its time.AfterFunc timers and FrameCh;     *)
(*   - internal/frameparser/parser.go   : StartParser, frame validation    *)
(*     and the parameter walk;                                             *)
(*   - internal/config                  : paramMap, LookupParamInfo, the   *)
(*     decode functions, LookupDeviceName and SetDeviceValue.              *)
(***************************************************************************)
EXTENDS Integers, Sequences, FiniteSets, TLC

(***************************************************************************)
(* Bounds of the model.                                                    *)
(***************************************************************************)
\* fragment sequence numbers offered to ProcessFrame are 0..MaxPSeq
MaxPSeq == 2
\* number of SDUCache objects allocated in one behaviour
MaxCaches == 2
\* capacity of FrameCh in the model (make(chan *Frame, 100) in the code)
FrameChCap == 1
\* fragments of one SDU in the delivery scripts of ScriptSpec
MaxFrags == 4
\* well-formed parameters in the body of a frame given to StartParser
MaxParams == 2

(***************************************************************************)
(* Generic helpers: Go maps as functions with a varying domain.            *)
(***************************************************************************)
EmptyMap == [k \in {} |-> 0]
MapPut(m, k, v) == [x \in (DOMAIN m) \cup {k} |-> IF x = k THEN v ELSE m[x]]
MapDel(m, k) == [x \in (DOMAIN m) \ {k} |-> m[x]]

\* uint8 arithmetic
U8(x) == x % 256

(***************************************************************************)
(* Inputs of ProcessFrame.                                                 *)
(***************************************************************************)
\* 6-byte sensor identifiers: 23 8A 08 26 23 19 is the one of idToDevice.go
KnownSensor == <<35, 138, 8, 38, 35, 25>>
OtherSensor == <<0, 0, 0, 0, 0, 1>>
Sensors == {KnownSensor}
SSeqValues == {0, 1}
PSeqValues == 0..MaxPSeq
FlagValues == 0..3
\* the payload of a fragment names its sequence number
DataOf(pseq) == <<16 + pseq>>

\* type Frame struct
Frame(sid, fragInd, sseq, pseq, flag, data) ==
    [SensorID |-> sid, FragInd |-> fragInd, SSEQ |-> sseq, PSEQ |-> pseq,
     Flag |-> flag, Data |-> data]

FragmentFrames ==
    { Frame(sid, 1, sseq, pseq, flag, DataOf(pseq)) :
        sid \in Sensors, sseq \in SSeqValues, pseq \in PSeqValues,
        flag \in FlagValues }

\* complete frames (FragInd # 1) handed to ProcessFrame
WholeFrames ==
    { Frame(sid, 0, 1, 2, 3, <<51>>) : sid \in Sensors }
    \cup { Frame(sid, 2, 0, 1, 0, <<52>>) : sid \in Sensors }

VARIABLES
    sduCacheMap,   \* sensor id -> SDUCache (field id stands for the pointer)
    timers,        \* cache id -> [sensor, state]: timers not yet stopped or run
    FrameCh,       \* the buffered output channel
    cacheMu,       \* "free" or "held"
    blockedSend,   \* frame of the call blocked in "FrameCh <- frame" under the lock
    nextId,        \* identity of the next SDUCache allocated
    finalized,     \* observation: the caches handed to finalizeAndOutput, in order
    timedOut,      \* observation: identities of the caches removed by their timer
    staleRan,      \* observation: timers whose callback ran and removed nothing
    script,        \* ScriptSpec: the fragments of one SDU in their order of arrival
    pos,           \* ScriptSpec: how many of them ProcessFrame has been given
    valuesMap,     \* config.valuesMap: device name -> (resource name -> value)
    parserState,   \* the StartParser goroutine: "running" or "panicked"
    lastOutcome,   \* observation: how StartParser left the last frame
    lastStored,    \* observation: the SetDeviceValue calls made for the last frame
    lastParsed,    \* observation: the value of "parsed" when the last frame was left
    lastOverrun,   \* observation: by how much idx had passed len(frame)-2 at that moment
    decIn,         \* DecodeSpec: the registry key and the bytes given to its decoder
    decOut,        \* DecodeSpec: what the decoder returned
    table,         \* config.table: parameter name -> Entry
    buildIn,       \* observation: the arguments of the last BuildGeneralParamFrame call
    buildOut,      \* observation: what that call returned
    input,         \* the frames that ReadFrame returns from the port, in order
    portEnd,       \* how the port ends after them: "eof" or "err"
    portPos,       \* how many of them ReadFrame has returned
    pending,       \* the frame the listener holds between ReadFrame and its send
    frameCh,       \* the listener's channel to StartParser
    chClosed,      \* close(frameCh) has been executed
    errSeen,       \* observation: ReadFrame has returned an error other than io.EOF
    received       \* observation: the frames StartParser has taken from frameCh

scriptVars == <<script, pos>>

decoderVars == <<decIn, decOut>>

builderVars == <<table, buildIn, buildOut>>

listenerVars == <<input, portEnd, portPos, pending, frameCh, chClosed, errSeen, received>>

parserVars == <<valuesMap, parserState, lastOutcome, lastStored, lastParsed, lastOverrun>>

reasmVars == <<sduCacheMap, timers, FrameCh, cacheMu, blockedSend, nextId,
               finalized, timedOut, staleRan>>

(***************************************************************************)
(* sharding.go                                                             *)
(***************************************************************************)
isFlagFirst(flag) == (flag % 4) = 0

isFlagLast(flag) == (flag % 4) = 3

appendFragmentData(cache, pseq, data) ==
    [cache EXCEPT !.dataBuffer = @ \o data]

\* The state a call works on, as one record.
ReasmState ==
    [sduCacheMap |-> sduCacheMap, timers |-> timers, FrameCh |-> FrameCh,
     cacheMu |-> cacheMu, blockedSend |-> blockedSend, nextId |-> nextId,
     finalized |-> finalized, timedOut |-> timedOut, staleRan |-> staleRan]

\* &SDUCache{...}; appendFragmentData; expectedSeq = frame.PSEQ + 1
NewCache(id, frame) ==
    LET c0 == [id |-> id, SSEQ |-> frame.SSEQ, expectedSeq |-> frame.PSEQ,
               finalSeq |-> 0, dataBuffer |-> <<>>, outOfOrder |-> EmptyMap,
               timer |-> TRUE]
        c1 == appendFragmentData(c0, frame.PSEQ, frame.Data)
    IN  [c1 EXCEPT !.expectedSeq = U8(frame.PSEQ + 1)]

\* time.AfterFunc(reassembleTimeout, func) : one armed timer for this cache
startReassembleTimer(S, sensorID, cache) ==
    [S EXCEPT !.timers = MapPut(@, cache.id, [sensor |-> sensorID, state |-> "armed"])]

\* timer.Stop(): an armed timer never runs; a timer that has fired already has
\* its callback started, and Stop does not recall it.
cancelReassembleTimer(S, cache) ==
    IF cache.timer /\ cache.id \in DOMAIN S.timers /\ S.timers[cache.id].state = "armed"
    THEN [S EXCEPT !.timers = MapDel(@, cache.id)]
    ELSE S

\* "FrameCh <- frame": the send completes when the channel has room; otherwise
\* the caller stays blocked in the send (holding whatever it holds).
ChanSend(S, frame, holdsMu) ==
    IF Len(S.FrameCh) < FrameChCap
    THEN [S EXCEPT !.FrameCh = Append(@, frame)]
    ELSE [S EXCEPT !.blockedSend = Append(@, frame),
                   !.cacheMu = IF holdsMu THEN "held" ELSE @]

\* mutant: the cache stays in the table when its frame is sent
finalizeAndOutput_KeepsCache(S, sensorID, cache) ==
    LET S1 == cancelReassembleTimer(S, cache)
        S2 == [S1 EXCEPT !.finalized = Append(@, cache)]
        fullFrame == Frame(sensorID, 0, cache.SSEQ, 0, 0, cache.dataBuffer)
    IN  ChanSend(S2, fullFrame, TRUE)

finalizeAndOutput(S, sensorID, cache) ==
    LET S1 == cancelReassembleTimer(S, cache)
        S2 == [S1 EXCEPT !.sduCacheMap = MapDel(@, sensorID),
                         !.finalized = Append(@, cache)]
        fullFrame == Frame(sensorID, 0, cache.SSEQ, 0, 0, cache.dataBuffer)
    IN  ChanSend(S2, fullFrame, TRUE)

\* lines 67-86, 105-121, 133-149: build the cache from a first fragment, arm its
\* timer, store it, and finalize at once when the fragment is also last.
StartCache(S, frame) ==
    LET sensorID == frame.SensorID
        newCache == NewCache(S.nextId, frame)
        S1 == startReassembleTimer(S, sensorID, newCache)
        S2 == [S1 EXCEPT !.sduCacheMap = MapPut(@, sensorID, newCache),
                         !.nextId = @ + 1]
    IN  IF isFlagLast(frame.Flag)
        THEN finalizeAndOutput(S2, sensorID, newCache)
        ELSE S2

\* mutant: the old timer is left running
RestartCache_NoCancel(S, frame) ==
    StartCache([S EXCEPT !.sduCacheMap = MapDel(@, frame.SensorID)], frame)

\* lines 100-101 and 130-131, then the fresh cache
RestartCache(S, frame) ==
    LET sensorID == frame.SensorID
        S1 == cancelReassembleTimer(S, S.sduCacheMap[sensorID])
        S2 == [S1 EXCEPT !.sduCacheMap = MapDel(@, sensorID)]
    IN  StartCache(S2, frame)

\* mutant: the loop takes at most one buffered fragment
DrainOutOfOrder_Once(cache) ==
    IF cache.expectedSeq \in DOMAIN cache.outOfOrder
    THEN LET c1 == appendFragmentData(cache, cache.expectedSeq,
                                      cache.outOfOrder[cache.expectedSeq])
             c2 == [c1 EXCEPT !.outOfOrder = MapDel(@, cache.expectedSeq)]
         IN  [c2 EXCEPT !.expectedSeq = U8(@ + 1)]
    ELSE cache

\* the for loop of lines 176-185
RECURSIVE DrainOutOfOrder(_)
DrainOutOfOrder(cache) ==
    IF cache.expectedSeq \in DOMAIN cache.outOfOrder
    THEN LET c1 == appendFragmentData(cache, cache.expectedSeq,
                                      cache.outOfOrder[cache.expectedSeq])
             c2 == [c1 EXCEPT !.outOfOrder = MapDel(@, cache.expectedSeq)]
         IN  DrainOutOfOrder([c2 EXCEPT !.expectedSeq = U8(@ + 1)])
    ELSE cache

\* mutant: the test forgets that finalSeq may still be unknown
IsComplete_NoFinalSeq(cache) ==
    cache.expectedSeq > cache.finalSeq

\* line 188
IsComplete(cache) ==
    cache.finalSeq # 0 /\ cache.expectedSeq > cache.finalSeq

\* lines 157-165: a fragment ahead of expectedSeq
BufferAhead(S, frame) ==
    LET sensorID == frame.SensorID
        c0 == S.sduCacheMap[sensorID]
        c1 == [c0 EXCEPT !.outOfOrder = MapPut(@, frame.PSEQ, frame.Data)]
        c2 == IF isFlagLast(frame.Flag) THEN [c1 EXCEPT !.finalSeq = frame.PSEQ] ELSE c1
    IN  [S EXCEPT !.sduCacheMap[sensorID] = c2]

\* mutant: every fragment appended in order gives the cache a fresh timer
AppendInOrder_RenewTimer(S, frame) ==
    LET sensorID == frame.SensorID
        c0 == S.sduCacheMap[sensorID]
        c1 == appendFragmentData(c0, frame.PSEQ, frame.Data)
        c2 == [c1 EXCEPT !.expectedSeq = U8(@ + 1)]
        c3 == IF isFlagLast(frame.Flag) THEN [c2 EXCEPT !.finalSeq = frame.PSEQ] ELSE c2
        c4 == DrainOutOfOrder(c3)
        S1 == [S EXCEPT !.sduCacheMap[sensorID] = c4]
        S2 == startReassembleTimer(cancelReassembleTimer(S1, c4), sensorID, c4)
    IN  IF IsComplete(c4) THEN finalizeAndOutput(S1, sensorID, c4) ELSE S2

\* lines 166-191: the expected fragment
AppendInOrder(S, frame) ==
    LET sensorID == frame.SensorID
        c0 == S.sduCacheMap[sensorID]
        c1 == appendFragmentData(c0, frame.PSEQ, frame.Data)
        c2 == [c1 EXCEPT !.expectedSeq = U8(@ + 1)]
        c3 == IF isFlagLast(frame.Flag) THEN [c2 EXCEPT !.finalSeq = frame.PSEQ] ELSE c2
        c4 == DrainOutOfOrder(c3)
        S1 == [S EXCEPT !.sduCacheMap[sensorID] = c4]
    IN  IF IsComplete(c4) THEN finalizeAndOutput(S1, sensorID, c4) ELSE S1

\* mutant: a fragment behind expectedSeq is buffered like one ahead of it
FragmentBranch_StaleBuffered(S, frame) ==
    LET sensorID == frame.SensorID
        exists == sensorID \in DOMAIN S.sduCacheMap
        sduCache == S.sduCacheMap[sensorID]
    IN  IF ~exists
        THEN IF isFlagFirst(frame.Flag) THEN "create" ELSE "dropOrphan"
        ELSE IF frame.SSEQ # sduCache.SSEQ
             THEN IF isFlagFirst(frame.Flag) THEN "restartOther" ELSE "dropOther"
             ELSE IF isFlagFirst(frame.Flag) THEN "restartSame"
                  ELSE IF frame.PSEQ # sduCache.expectedSeq THEN "ahead"
                  ELSE "inOrder"

\* The branch of ProcessFrame's fragment path that a frame takes in state S.
FragmentBranch(S, frame) ==
    LET sensorID == frame.SensorID
        exists == sensorID \in DOMAIN S.sduCacheMap
        sduCache == S.sduCacheMap[sensorID]
    IN  IF ~exists
        THEN IF isFlagFirst(frame.Flag) THEN "create" ELSE "dropOrphan"
        ELSE IF frame.SSEQ # sduCache.SSEQ
             THEN IF isFlagFirst(frame.Flag) THEN "restartOther" ELSE "dropOther"
             ELSE IF isFlagFirst(frame.Flag) THEN "restartSame"
                  ELSE IF frame.PSEQ < sduCache.expectedSeq THEN "dropStale"
                  ELSE IF frame.PSEQ > sduCache.expectedSeq THEN "ahead"
                  ELSE "inOrder"

\* ProcessFrame, lines 55-194: the part run under cacheMu.
ProcessFragment(S, frame) ==
    LET b == FragmentBranch(S, frame)
    IN  CASE b = "create" -> StartCache(S, frame)
          [] b \in {"restartOther", "restartSame"} -> RestartCache(S, frame)
          [] b = "ahead" -> BufferAhead(S, frame)
          [] b = "inOrder" -> AppendInOrder(S, frame)
          [] OTHER -> S

\* The branches that allocate an SDUCache.
Allocates(S, frame) ==
    FragmentBranch(S, frame) \in {"create", "restartOther", "restartSame"}

Install(S) ==
    /\ sduCacheMap' = S.sduCacheMap
    /\ timers' = S.timers
    /\ FrameCh' = S.FrameCh
    /\ cacheMu' = S.cacheMu
    /\ blockedSend' = S.blockedSend
    /\ nextId' = S.nextId
    /\ finalized' = S.finalized
    /\ timedOut' = S.timedOut
    /\ staleRan' = S.staleRan

\* mutant: the frame is forwarded in the form of a reassembled one
ProcessWhole_Normalised(frame) ==
    /\ frame.FragInd # 1
    /\ Len(FrameCh) < FrameChCap
    /\ Install(ChanSend(ReasmState, Frame(frame.SensorID, 0, frame.SSEQ, 0, 0, frame.Data),
                        FALSE))

\* ProcessFrame on a frame with FragInd # 1 (lines 50-53): no lock is taken.
ProcessWhole(frame) ==
    /\ frame.FragInd # 1
    /\ Len(FrameCh) < FrameChCap
    /\ Install(ChanSend(ReasmState, frame, FALSE))

\* ProcessFrame on a fragment (lines 55-194).
ProcessFrag(frame) ==
    /\ frame.FragInd = 1
    /\ cacheMu = "free"
    /\ Allocates(ReasmState, frame) => nextId <= MaxCaches
    /\ Install(ProcessFragment(ReasmState, frame))

\* The runtime timer of cache id expires: the AfterFunc goroutine is started.
TimerFire(id) ==
    /\ id \in DOMAIN timers
    /\ timers[id].state = "armed"
    /\ timers' = [timers EXCEPT ![id].state = "fired"]
    /\ UNCHANGED <<sduCacheMap, FrameCh, cacheMu, blockedSend, nextId, finalized,
                   timedOut, staleRan>>

\* mutant: an expired timer empties the whole table
TimeoutBody_AllSensors(S, id) ==
    LET sensorID == S.timers[id].sensor
        ok == sensorID \in DOMAIN S.sduCacheMap
    IN  IF ok /\ S.sduCacheMap[sensorID].id = id
        THEN [S EXCEPT !.sduCacheMap = EmptyMap,
                       !.timedOut = @ \cup {id}]
        ELSE S

\* mutant: the callback tests only that the sensor has a cache
TimeoutBody_NoIdentity(S, id) ==
    LET sensorID == S.timers[id].sensor
    IN  IF sensorID \in DOMAIN S.sduCacheMap
        THEN [S EXCEPT !.sduCacheMap = MapDel(@, sensorID),
                       !.timedOut = @ \cup {id}]
        ELSE S

\* mutant: the callback leaves the expired cache in the table
TimeoutBody_NoDelete(S, id) == S

\* the callback of startReassembleTimer, lines 218-226
TimeoutBody(S, id) ==
    LET sensorID == S.timers[id].sensor
        ok == sensorID \in DOMAIN S.sduCacheMap
    IN  IF ok /\ S.sduCacheMap[sensorID].id = id
        THEN [S EXCEPT !.sduCacheMap = MapDel(@, sensorID),
                       !.timedOut = @ \cup {id}]
        ELSE S

\* mutant: the callback runs without taking cacheMu
TimerCallback_NoLock(id) ==
    /\ id \in DOMAIN timers
    /\ timers[id].state = "fired"
    /\ LET S1 == TimeoutBody(ReasmState, id)
       IN  Install([S1 EXCEPT !.timers = MapDel(@, id),
                              !.staleRan = IF S1.sduCacheMap = sduCacheMap
                                           THEN @ \cup {id} ELSE @])

TimerCallback(id) ==
    /\ id \in DOMAIN timers
    /\ timers[id].state = "fired"
    /\ cacheMu = "free"
    /\ LET S1 == TimeoutBody(ReasmState, id)
       IN  Install([S1 EXCEPT !.timers = MapDel(@, id),
                              !.staleRan = IF S1.sduCacheMap = sduCacheMap
                                           THEN @ \cup {id} ELSE @])

ReasmInit ==
    /\ sduCacheMap = EmptyMap
    /\ timers = EmptyMap
    /\ FrameCh = <<>>
    /\ cacheMu = "free"
    /\ blockedSend = <<>>
    /\ nextId = 1
    /\ finalized = <<>>
    /\ timedOut = {}
    /\ staleRan = {}

(***************************************************************************)
(* config: idToDevice.go, the value table, param_table_parser.go           *)
(***************************************************************************)
HexDigits == <<"0", "1", "2", "3", "4", "5", "6", "7", "8", "9",
               "A", "B", "C", "D", "E", "F">>

\* strings.ToUpper(hex.EncodeToString(b)), as a sequence of characters
RECURSIVE HexUpper(_)
HexUpper(b) ==
    IF b = <<>> THEN <<>>
    ELSE <<HexDigits[(b[1] \div 16) + 1], HexDigits[(b[1] % 16) + 1]>> \o HexUpper(Tail(b))

\* "238A08262319": "WaterLevelSensor01"
sensorIDToDeviceName ==
    [k \in { <<"2", "3", "8", "A", "0", "8", "2", "6", "2", "3", "1", "9">> } |->
        "WaterLevelSensor01"]

LookupDeviceName(sensorID) ==
    IF sensorID \in DOMAIN sensorIDToDeviceName
    THEN [deviceName |-> sensorIDToDeviceName[sensorID], ok |-> TRUE]
    ELSE [deviceName |-> "", ok |-> FALSE]

SetDeviceValue(vm, deviceName, resourceName, value) ==
    LET dm == IF deviceName \in DOMAIN vm THEN vm[deviceName] ELSE EmptyMap
    IN  MapPut(vm, deviceName, MapPut(dm, resourceName, value))

\* binary.LittleEndian / BigEndian
LEUint16(b) == b[1] + 256 * b[2]
\* a uint32 is kept as <<high 16 bits, low 16 bits>>
LEUint32(b) == <<b[3] + 256 * b[4], b[1] + 256 * b[2]>>
BEUint16(b) == 256 * b[1] + b[2]

\* math.Float32frombits: the IEEE-754 single with these bits, by its fields
Float32frombits(bits) ==
    [kind |-> "float32", sign |-> bits[1] \div 32768,
     exp |-> (bits[1] \div 128) % 256, mant |-> 65536 * (bits[1] % 128) + bits[2]]

\* float32(n) for an integer 0 <= n < 2^24 (exact)
RECURSIVE Log2Floor(_)
Log2Floor(n) == IF n < 2 THEN 0 ELSE 1 + Log2Floor(n \div 2)

RECURSIVE Pow2(_)
Pow2(e) == IF e = 0 THEN 1 ELSE 2 * Pow2(e - 1)

Float32ofInt(n) ==
    IF n = 0 THEN [kind |-> "float32", sign |-> 0, exp |-> 0, mant |-> 0]
    ELSE LET e == Log2Floor(n)
         IN  [kind |-> "float32", sign |-> 0, exp |-> 127 + e,
              mant |-> (n - Pow2(e)) * Pow2(23 - e)]

Ok(v) == [err |-> FALSE, val |-> v]
Err == [err |-> TRUE, val |-> "nil"]

parseFloat32(data) ==
    IF Len(data) # 4 THEN Err ELSE Ok(Float32frombits(LEUint32(data)))

parseUint8(data) ==
    IF Len(data) # 1 THEN Err ELSE Ok([kind |-> "uint8", v |-> data[1]])

parseAndStoreTemperature(data) == parseFloat32(data)

parseAndStoreHumidity(data) ==
    IF Len(data) # 2 THEN Err ELSE Ok(Float32ofInt(LEUint16(data)))

parseAndStoreVoltage(data) ==
    IF Len(data) < 4 THEN Err ELSE Ok(Float32frombits(LEUint32(SubSeq(data, 1, 4))))

parseAndStoreBatteryLevel(data) ==
    IF Len(data) < 2 THEN Err ELSE Ok([kind |-> "uint16", v |-> LEUint16(SubSeq(data, 1, 2))])

parseAndStoreDeviceStatus(data) ==
    IF Len(data) < 1 THEN Err ELSE Ok([kind |-> "uint8", v |-> data[1]])

parseAndStoreLevelHeight(data) ==
    IF Len(data) < 4 THEN Err ELSE Ok(Float32frombits(LEUint32(SubSeq(data, 1, 4))))

ParamInfo(name, unit, byteLen, dataType, parse) ==
    [Name |-> name, Unit |-> unit, ByteLen |-> byteLen, DataType |-> dataType,
     Parse |-> parse]

\* paramMap, keyed by <<FeatureBits, CodeBits>>.  The names and units that are
\* not ASCII in the source are transliterated.
paramMap ==
    LET e(code, info) == [k \in {<<0, code>>} |-> info]
    IN  e(1, ParamInfo("changdu", "m", 4, "float32", "parseFloat32"))
        @@ e(2, ParamInfo("dianchi-shengyu-dianliang", "%", 2, "uint16", "parseAndStoreBatteryLevel"))
        @@ e(3, ParamInfo("voltage", "v", 4, "uint32", "parseAndStoreVoltage"))
        @@ e(4, ParamInfo("state", "code", 1, "uint8", "parseAndStoreDeviceStatus"))
        @@ e(5, ParamInfo("wendu", "C", 4, "float32", "parseFloat32"))
        @@ e(6, ParamInfo("wuzhi-de-liang", "mol", 4, "float32", "parseFloat32"))
        @@ e(7, ParamInfo("faguang-qiangdu", "cd", 4, "float32", "parseFloat32"))
        @@ e(8, ParamInfo("temperature", "C", 4, "float32", "parseAndStoreTemperature"))
        @@ e(9, ParamInfo("humidity", "%RH", 2, "float32", "parseAndStoreHumidity"))
        @@ e(56, ParamInfo("xintiao-zhuangtai", "\\", 1, "uint8", "parseUint8"))
        @@ e(57, ParamInfo("battery-level", "%", 1, "uint8", "parseUint8"))
        @@ e(163, ParamInfo("water-level", "m", 4, "float32", "parseAndStoreLevelHeight"))

\* info.Parse(valBytes)
CallParse(parse, data) ==
    CASE parse = "parseFloat32" -> parseFloat32(data)
      [] parse = "parseUint8" -> parseUint8(data)
      [] parse = "parseAndStoreTemperature" -> parseAndStoreTemperature(data)
      [] parse = "parseAndStoreHumidity" -> parseAndStoreHumidity(data)
      [] parse = "parseAndStoreVoltage" -> parseAndStoreVoltage(data)
      [] parse = "parseAndStoreBatteryLevel" -> parseAndStoreBatteryLevel(data)
      [] parse = "parseAndStoreDeviceStatus" -> parseAndStoreDeviceStatus(data)
      [] parse = "parseAndStoreLevelHeight" -> parseAndStoreLevelHeight(data)

LookupParamInfo(paramType) ==
    LET feature == (paramType \div 2048) % 8
        code == paramType % 2048
        key == <<feature, code>>
    IN  IF key \in DOMAIN paramMap
        THEN [info |-> paramMap[key], ok |-> TRUE]
        ELSE [info |-> ParamInfo("", "", 0, "", ""), ok |-> FALSE]

(***************************************************************************)
(* frameparser: the checksum and StartParser                               *)
(***************************************************************************)
\* CRC16: a deterministic 16-bit checksum of a byte sequence (Fletcher-16)
RECURSIVE FletcherSums(_, _, _)
FletcherSums(b, s1, s2) ==
    IF b = <<>> THEN <<s1, s2>>
    ELSE LET n1 == (s1 + b[1]) % 255
         IN  FletcherSums(Tail(b), n1, (s2 + n1) % 255)

CRC16(b) ==
    LET r == FletcherSums(b, 0, 0) IN 256 * r[2] + r[1]

\* frame[i] and frame[lo:hi] with Go's 0-based indices
ByteAt(frame, i) == frame[i + 1]
Slice(frame, lo, hi) == SubSeq(frame, lo + 1, hi)

\* mutant: an unknown type code aborts the rest of the frame
AfterValue_AbortUnknown(w, deviceName, head16, valBytes) ==
    LET found == LookupParamInfo(head16)
        res == CallParse(found.info.Parse, valBytes)
    IN  IF found.ok
        THEN IF res.err THEN [w EXCEPT !.parsed = @ + 1]
             ELSE [w EXCEPT !.parsed = @ + 1,
                            !.stored = Append(@, [device |-> deviceName,
                                                  name |-> found.info.Name,
                                                  value |-> res.val])]
        ELSE [w EXCEPT !.status = "dataBounds"]

\* lines 101-115: look the parameter up and decode it, then parsed++
AfterValue(w, deviceName, head16, valBytes) ==
    LET found == LookupParamInfo(head16)
        res == CallParse(found.info.Parse, valBytes)
    IN  IF found.ok /\ ~res.err
        THEN [w EXCEPT !.parsed = @ + 1,
                       !.stored = Append(@, [device |-> deviceName,
                                             name |-> found.info.Name,
                                             value |-> res.val])]
        ELSE [w EXCEPT !.parsed = @ + 1]

\* lines 76-89: the value length and the index after the explicit-length
\* bytes; an index outside the frame is a run-time panic
ResolveLength(frame, idx, lenFlag) ==
    CASE lenFlag = 0 -> [panic |-> FALSE, dataLen |-> 4, idx |-> idx]
      [] lenFlag = 1 ->
            IF idx >= Len(frame) THEN [panic |-> TRUE, dataLen |-> 0, idx |-> idx]
            ELSE [panic |-> FALSE, dataLen |-> ByteAt(frame, idx), idx |-> idx + 1]
      [] lenFlag = 2 ->
            IF idx + 2 > Len(frame) THEN [panic |-> TRUE, dataLen |-> 0, idx |-> idx]
            ELSE [panic |-> FALSE, dataLen |-> BEUint16(Slice(frame, idx, idx + 2)),
                  idx |-> idx + 2]
      [] lenFlag = 3 ->
            IF idx + 2 >= Len(frame) THEN [panic |-> TRUE, dataLen |-> 0, idx |-> idx]
            ELSE [panic |-> FALSE,
                  dataLen |-> 65536 * ByteAt(frame, idx) + 256 * ByteAt(frame, idx + 1)
                              + ByteAt(frame, idx + 2),
                  idx |-> idx + 3]

\* mutant: a bounds failure retracts what the frame has stored so far
WalkStep_Rollback(frame, deviceName, w) ==
    IF w.idx + 2 > Len(frame) - 2
    THEN [w EXCEPT !.status = "headerBounds", !.stored = <<>>]
    ELSE LET head16 == BEUint16(Slice(frame, w.idx, w.idx + 2))
             lenFlag == head16 % 4
             rl == ResolveLength(frame, w.idx + 2, lenFlag)
         IN  IF rl.panic THEN [w EXCEPT !.status = "panic", !.idx = rl.idx]
             ELSE IF rl.idx + rl.dataLen > Len(frame) - 2
                  THEN [w EXCEPT !.status = "dataBounds", !.idx = rl.idx, !.stored = <<>>]
                  ELSE AfterValue([w EXCEPT !.idx = rl.idx + rl.dataLen], deviceName,
                                  head16, Slice(frame, rl.idx, rl.idx + rl.dataLen))

\* one iteration of the loop of lines 64-116; w = [idx, parsed, stored, status]
WalkStep(frame, deviceName, w) ==
    IF w.idx + 2 > Len(frame) - 2
    THEN [w EXCEPT !.status = "headerBounds"]
    ELSE LET head16 == BEUint16(Slice(frame, w.idx, w.idx + 2))
             lenFlag == head16 % 4
             rl == ResolveLength(frame, w.idx + 2, lenFlag)
         IN  IF rl.panic THEN [w EXCEPT !.status = "panic", !.idx = rl.idx]
             ELSE IF rl.idx + rl.dataLen > Len(frame) - 2
                  THEN [w EXCEPT !.status = "dataBounds", !.idx = rl.idx]
                  ELSE AfterValue([w EXCEPT !.idx = rl.idx + rl.dataLen], deviceName,
                                  head16, Slice(frame, rl.idx, rl.idx + rl.dataLen))

\* the loop of lines 62-116
RECURSIVE Walk(_, _, _, _)
Walk(frame, deviceName, dataCount, w) ==
    IF w.status = "walking" /\ w.parsed < dataCount
    THEN Walk(frame, deviceName, dataCount, WalkStep(frame, deviceName, w))
    ELSE w

Rejected(outcome) == [outcome |-> outcome, stored |-> <<>>, parsed |-> 0, idx |-> 0]

\* mutant: the checksum is not compared
FrameRejection_NoCRC(frame) ==
    IF Len(frame) < 9 THEN "short"
    ELSE LET found == LookupDeviceName(HexUpper(Slice(frame, 0, 6)))
             head == ByteAt(frame, 6)
             fragInd == (head \div 8) % 2
             packetType == head % 8
         IN  IF ~found.ok THEN "unknownSensor"
             ELSE IF packetType # 0 /\ packetType # 2 THEN "packetType"
             ELSE IF fragInd = 1 THEN "fragment"
             ELSE "none"

\* FrameRejection without the packet-type filter of lines 51-53
FrameRejection_NoTypeFilter(frame) ==
    IF Len(frame) < 9 THEN "short"
    ELSE IF CRC16(Slice(frame, 0, Len(frame) - 2))
              # BEUint16(Slice(frame, Len(frame) - 2, Len(frame)))
    THEN "crc"
    ELSE LET found == LookupDeviceName(HexUpper(Slice(frame, 0, 6)))
             head == ByteAt(frame, 6)
             fragInd == (head \div 8) % 2
         IN  IF ~found.ok THEN "unknownSensor"
             ELSE IF fragInd = 1 THEN "fragment"
             ELSE "none"

\* lines 25-59: the tests a frame has to pass before its parameters are walked
FrameRejection(frame) ==
    IF Len(frame) < 9 THEN "short"
    ELSE IF CRC16(Slice(frame, 0, Len(frame) - 2))
              # BEUint16(Slice(frame, Len(frame) - 2, Len(frame)))
    THEN "crc"
    ELSE LET found == LookupDeviceName(HexUpper(Slice(frame, 0, 6)))
             head == ByteAt(frame, 6)
             fragInd == (head \div 8) % 2
             packetType == head % 8
         IN  IF ~found.ok THEN "unknownSensor"
             ELSE IF packetType # 0 /\ packetType # 2 THEN "packetType"
             ELSE IF fragInd = 1 THEN "fragment"
             ELSE "none"

\* the body of the loop "for frame := range frameCh", lines 24-121
ParseFrame(frame) ==
    IF FrameRejection(frame) # "none" THEN Rejected(FrameRejection(frame))
    ELSE LET found == LookupDeviceName(HexUpper(Slice(frame, 0, 6)))
             dataCount == ByteAt(frame, 6) \div 16
             w == Walk(frame, found.deviceName, dataCount,
                       [idx |-> 7, parsed |-> 0, stored |-> <<>>, status |-> "walking"])
         IN  [outcome |-> IF w.status = "walking" THEN "ok" ELSE w.status,
              stored |-> w.stored, parsed |-> w.parsed, idx |-> w.idx]

(***************************************************************************)
(* Frames given to StartParser.                                            *)
(***************************************************************************)
\* parameters whose bytes are all present
P_state == <<0, 4, 1, 0, 0, 0>>          \* 0x0004: lengthFlag 0, 4 value bytes
P_battLong == <<0, 57, 2, 85, 86>>       \* 0x0039: lengthFlag 1, length 2
P_unknown == <<127, 252, 9, 9, 9, 9>>    \* 0x7FFC: lengthFlag 0, not registered
WellFormedParams == {P_state, P_battLong, P_unknown}

\* what may end a body
P_batt == <<0, 57, 1, 85>>               \* 0x0039: lengthFlag 1, length 1
P_water3 == <<0, 163, 0, 0, 4, 0, 0, 192, 63>>  \* 0x00A3: lengthFlag 3, length 4, 1.5
P_typed163 == <<2, 140, 0, 0, 192, 63>>  \* 0x028C: type code 163, lengthFlag 0, 1.5
P_len1Only == <<0, 1>>                   \* lengthFlag 1 and no length byte
P_len2Only == <<0, 2>>                   \* lengthFlag 2 and no length bytes
P_len3Only == <<0, 3>>                   \* lengthFlag 3 and no length bytes
P_len3Short == <<0, 3, 0>>               \* lengthFlag 3 and one length byte
P_len2Over == <<0, 10, 0, 9, 1, 2>>      \* lengthFlag 2, length 9, 2 value bytes
P_stray == <<7>>                         \* half a field header
P_type40Len1 == <<0, 161, 4, 0, 0, 192, 63>>  \* 0x00A1: typeCode 40 as P_water3, lengthFlag 1, length 4, 1.5
Tails == {<<>>, P_batt, P_water3, P_typed163, P_len1Only, P_len2Only, P_len3Only,
          P_len3Short, P_len2Over, P_stray}

RECURSIVE Flatten(_)
Flatten(ps) == IF ps = <<>> THEN <<>> ELSE ps[1] \o Flatten(Tail(ps))

ParamLists == UNION { [1..k -> WellFormedParams] : k \in 0..MaxParams }

\* the 16-bit checksum, big-endian
WithCRC(body) == body \o <<CRC16(body) \div 256, CRC16(body) % 256>>
WithBadCRC(body) == body \o <<CRC16(body) \div 256, (CRC16(body) + 1) % 256>>

Header(dataCount, fragInd, packetType) == 16 * dataCount + 8 * fragInd + packetType

BuildFrame(sid, dataCount, fragInd, packetType, ps, tail) ==
    WithCRC(sid \o <<Header(dataCount, fragInd, packetType)>> \o Flatten(ps) \o tail)

\* parameter counts around the number n of parameters present
CountsAround(n) == {c \in {n - 1, n, n + 1} : c >= 0}

\* data frames of the known sensor: any parameter list, any tail
DataFrames ==
    UNION { { BuildFrame(KnownSensor, c, 0, 0, ps, tail) :
                c \in CountsAround(Len(ps) + (IF tail = <<>> THEN 0 ELSE 1)) } :
            ps \in ParamLists, tail \in Tails }
    \cup { BuildFrame(KnownSensor, 1, 0, 2, <<P_state>>, <<>>),
           BuildFrame(KnownSensor, 2, 0, 2, <<P_unknown>>, P_batt),
           BuildFrame(KnownSensor, 1, 0, 0, <<>>, P_type40Len1) }

\* frames that StartParser leaves before the walk
OtherFrames ==
    { BuildFrame(OtherSensor, 1, 0, 0, <<P_state>>, <<>>),
      BuildFrame(KnownSensor, 1, 1, 0, <<P_state>>, <<>>),
      BuildFrame(KnownSensor, 1, 0, 1, <<P_state>>, <<>>),
      BuildFrame(KnownSensor, 15, 0, 7, <<P_state>>, P_len3Only),
      WithBadCRC(KnownSensor \o <<Header(1, 0, 0)>> \o P_state),
      WithBadCRC(KnownSensor \o <<Header(0, 0, 0)>>),
      WithCRC(KnownSensor),
      KnownSensor \o <<Header(0, 0, 0), 0>>,
      <<>> }

ParserFrames == DataFrames \cup OtherFrames

\* ParseFrame, tabulated over the frames
ParseResult == [frame \in ParserFrames |-> ParseFrame(frame)]

RECURSIVE ApplyStores(_, _)
ApplyStores(vm, stored) ==
    IF stored = <<>> THEN vm
    ELSE ApplyStores(SetDeviceValue(vm, stored[1].device, stored[1].name, stored[1].value),
                     Tail(stored))

\* how the walk of a frame that passed the tests of lines 25-59 can end
WalkOutcomes == {"ok", "headerBounds", "dataBounds", "panic"}

\* StartParser takes one frame from frameCh and handles it.  A panic ends the
\* goroutine (and the process); the values stored before it stay stored.
StartParserStep(frame) ==
    /\ parserState = "running"
    /\ LET r == ParseResult[frame]
       IN  /\ valuesMap' = ApplyStores(valuesMap, r.stored)
           /\ parserState' = IF r.outcome = "panic" THEN "panicked" ELSE "running"
           /\ lastOutcome' = r.outcome
           /\ lastStored' = r.stored
           /\ lastParsed' = r.parsed
           /\ lastOverrun' = IF r.outcome \in WalkOutcomes /\ r.idx > Len(frame) - 2
                             THEN r.idx - (Len(frame) - 2) ELSE 0

ParserInit ==
    /\ valuesMap = EmptyMap
    /\ parserState = "running"
    /\ lastOutcome = "none"
    /\ lastStored = <<>>
    /\ lastParsed = 0
    /\ lastOverrun = 0

(***************************************************************************)
(* The decode functions of the registry, each applied to a byte slice.     *)
(***************************************************************************)
\* bytes in a slice given to a decode function
MaxDataLen == 5

DecodeBytes == {0, 63}

DecodeData == UNION { [1..n -> DecodeBytes] : n \in 0..MaxDataLen }

DecodeInputs == { [key |-> k, data |-> d] : k \in DOMAIN paramMap, d \in DecodeData }

NotDecoded == [done |-> FALSE, err |-> FALSE, val |-> "nil"]

\* no decoder call is in progress (the specifications that do not decode)
DecoderIdle ==
    /\ decIn = [key |-> <<0, 1>>, data |-> <<>>]
    /\ decOut = NotDecoded

\* info.Parse(data) for the registry entry decIn.key
DecodeStep ==
    /\ ~decOut.done
    /\ LET res == CallParse(paramMap[decIn.key].Parse, decIn.data)
       IN  decOut' = [done |-> TRUE, err |-> res.err, val |-> res.val]
    /\ UNCHANGED decIn

(***************************************************************************)
(* config.table and frameparser.BuildGeneralParamFrame                     *)
(***************************************************************************)
maxParams == 16

ctrlTypeGeneralParams == 3

\* the packet type of control frames
packetTypeControl == 4

Zeros(n) == [i \in 1..n |-> 0]

LEPutUint16(v) == <<v % 256, v \div 256>>

BEPutUint16(v) == <<v \div 256, v % 256>>

\* the table literal: Temperature (0x0005<<2)|0, Humidity (0x0009<<2)|1
TableInit ==
    MapPut(MapPut(EmptyMap, "Temperature",
                  [head16 |-> LEUint16(<<20, 0>>), length |-> 4, data |-> Zeros(4)]),
           "Humidity",
           [head16 |-> LEUint16(<<37, 0>>), length |-> 1, data |-> Zeros(1)])

\* UpdateData: the table after the call (unchanged when it returns an error)
UpdateData(tbl, name, value) ==
    IF name \notin DOMAIN tbl THEN tbl
    ELSE IF Len(value) # tbl[name].length THEN tbl
    ELSE [tbl EXCEPT ![name].data = value]

GetEntryCopy(tbl, name) ==
    IF name \notin DOMAIN tbl
    THEN [err |-> TRUE, entry |-> [head16 |-> 0, length |-> 0, data |-> <<>>]]
    ELSE [err |-> FALSE, entry |-> tbl[name]]

\* mutant: a value of any length is written
RECURSIVE BuildParameterList_NoLengthCheck(_, _, _)
BuildParameterList_NoLengthCheck(tbl, paramsOrder, paramsMap) ==
    IF paramsOrder = <<>> THEN [err |-> FALSE, bytes |-> <<>>]
    ELSE LET name == Head(paramsOrder)
             got == GetEntryCopy(tbl, name)
             rest == BuildParameterList_NoLengthCheck(tbl, Tail(paramsOrder), paramsMap)
         IN  IF got.err THEN [err |-> TRUE, bytes |-> <<>>]
             ELSE IF name \notin DOMAIN paramsMap THEN [err |-> TRUE, bytes |-> <<>>]
             ELSE IF rest.err THEN rest
             ELSE [err |-> FALSE,
                   bytes |-> LEPutUint16(got.entry.head16) \o paramsMap[name] \o rest.bytes]

\* the loop of lines 48-71: the first failing parameter ends the call
RECURSIVE BuildParameterList(_, _, _)
BuildParameterList(tbl, paramsOrder, paramsMap) ==
    IF paramsOrder = <<>> THEN [err |-> FALSE, bytes |-> <<>>]
    ELSE LET name == Head(paramsOrder)
             got == GetEntryCopy(tbl, name)
             rest == BuildParameterList(tbl, Tail(paramsOrder), paramsMap)
         IN  IF got.err THEN [err |-> TRUE, bytes |-> <<>>]
             ELSE IF name \notin DOMAIN paramsMap THEN [err |-> TRUE, bytes |-> <<>>]
             ELSE IF Len(paramsMap[name]) # got.entry.length THEN [err |-> TRUE, bytes |-> <<>>]
             ELSE IF rest.err THEN rest
             ELSE [err |-> FALSE,
                   bytes |-> LEPutUint16(got.entry.head16) \o paramsMap[name] \o rest.bytes]

\* lines 75-97: header byte, control byte, parameter list, checksum
AssembleFrame(sensorID, requestSetFlag, dataLen, parameterList) ==
    LET head == 16 * (dataLen % 16) + (packetTypeControl % 8)
        ctrlByte == 2 * (ctrlTypeGeneralParams % 128) + (requestSetFlag % 2)
        body == sensorID \o <<head, ctrlByte>>
                \o (IF requestSetFlag = 1 THEN parameterList ELSE <<>>)
    IN  body \o BEPutUint16(CRC16(body))

BuildGeneralParamFrame(tbl, sensorID, requestSetFlag, paramsOrder, paramsMap) ==
    IF requestSetFlag = 0
    THEN [err |-> FALSE, frame |-> AssembleFrame(sensorID, requestSetFlag, 15, <<>>)]
    ELSE LET m == Len(paramsOrder)
             pl == BuildParameterList(tbl, paramsOrder, paramsMap)
         IN  IF m = 0 \/ m > maxParams THEN [err |-> TRUE, frame |-> <<>>]
             ELSE IF pl.err THEN [err |-> TRUE, frame |-> <<>>]
             ELSE [err |-> FALSE,
                   frame |-> AssembleFrame(sensorID, requestSetFlag, m % 16, pl.bytes)]

\* parameter names in a call; "Pressure" is not in the table
MaxOrder == 2

BuilderNames == {"Temperature", "Humidity", "Pressure"}

BuilderValues == {<<1>>, <<1, 2, 3, 4>>}

\* short orders of any names, and two long ones around maxParams
BuilderOrders ==
    UNION { [1..k -> BuilderNames] : k \in 0..MaxOrder }
    \cup { [i \in 1..maxParams |-> "Humidity"], [i \in 1..(maxParams + 1) |-> "Humidity"] }

\* maps that give a value to some of the names
BuilderMaps ==
    UNION { [D -> BuilderValues] : D \in SUBSET {"Temperature", "Humidity"} }

BuilderInputs ==
    { [requestSetFlag |-> f, paramsOrder |-> o, paramsMap |-> pm] :
        f \in {0, 1, 2}, o \in BuilderOrders, pm \in BuilderMaps }

NotBuilt == [done |-> FALSE, err |-> FALSE, frame |-> <<>>]

BuilderInit ==
    /\ table = TableInit
    /\ buildIn = [requestSetFlag |-> 0, paramsOrder |-> <<>>, paramsMap |-> EmptyMap]
    /\ buildOut = NotBuilt

\* a call of config.UpdateData
UpdateDataStep(name, value) ==
    /\ table' = UpdateData(table, name, value)
    /\ UNCHANGED <<buildIn, buildOut>>

\* a call of BuildGeneralParamFrame for the known sensor
BuildStep(in) ==
    /\ LET res == BuildGeneralParamFrame(table, KnownSensor, in.requestSetFlag,
                                         in.paramsOrder, in.paramsMap)
       IN  buildOut' = [done |-> TRUE, err |-> res.err, frame |-> res.frame]
    /\ buildIn' = in
    /\ UNCHANGED table

(***************************************************************************)
(* drx_parser.go: StartDRXListener, and StartParser as the reader of the   *)
(* listener's channel.                                                     *)
(***************************************************************************)
\* capacity of the listener's channel (100 in lpmpdriver.go)
ListenerChCap == 1
\* frames on the port
MaxInput == 3

ListenerFrames ==
    { BuildFrame(KnownSensor, 0, 0, 0, <<>>, <<>>),
      BuildFrame(KnownSensor, 1, 0, 0, <<P_state>>, <<>>) }

ListenerInputs == UNION { [1..n -> ListenerFrames] : n \in 0..MaxInput }

ListenerIdle ==
    /\ input = <<>>
    /\ portEnd = "eof"
    /\ portPos = 0
    /\ pending = <<>>
    /\ frameCh = <<>>
    /\ chClosed = FALSE
    /\ errSeen = FALSE
    /\ received = <<>>

\* r.ReadFrame() at the top of the listener's loop, lines 101-109
ListenerRead ==
    /\ pending = <<>>
    /\ ~chClosed
    /\ IF portPos < Len(input)
       THEN /\ pending' = <<input[portPos + 1]>>
            /\ portPos' = portPos + 1
            /\ UNCHANGED <<chClosed, errSeen>>
       ELSE IF portEnd = "eof"
            THEN /\ chClosed' = TRUE
                 /\ UNCHANGED <<pending, portPos, errSeen>>
            ELSE /\ errSeen' = TRUE
                 /\ UNCHANGED <<pending, portPos, chClosed>>
    /\ UNCHANGED <<input, portEnd, frameCh, received>>

\* mutant: a frame that finds the channel full is dropped
ListenerSend_DropWhenFull ==
    /\ pending # <<>>
    /\ frameCh' = IF Len(frameCh) < ListenerChCap
                  THEN Append(frameCh, pending[1]) ELSE frameCh
    /\ pending' = <<>>
    /\ UNCHANGED <<input, portEnd, portPos, chClosed, errSeen, received>>

\* "frameCh <- frame", line 110: waits for room in the channel
ListenerSend ==
    /\ pending # <<>>
    /\ Len(frameCh) < ListenerChCap
    /\ frameCh' = Append(frameCh, pending[1])
    /\ pending' = <<>>
    /\ UNCHANGED <<input, portEnd, portPos, chClosed, errSeen, received>>

\* one turn of "for frame := range frameCh" in StartParser
ParserReceive ==
    /\ frameCh # <<>>
    /\ StartParserStep(Head(frameCh))
    /\ frameCh' = Tail(frameCh)
    /\ received' = Append(received, Head(frameCh))
    /\ UNCHANGED <<input, portEnd, portPos, pending, chClosed, errSeen>>

\* the range loop ends on the closed and emptied channel
ParserExit ==
    /\ parserState = "running"
    /\ chClosed
    /\ frameCh = <<>>
    /\ parserState' = "finished"
    /\ UNCHANGED <<valuesMap, lastOutcome, lastStored, lastParsed, lastOverrun, listenerVars>>

vars == <<reasmVars, scriptVars, parserVars, decoderVars, builderVars, listenerVars>>

Init ==
    /\ ReasmInit
    /\ script = <<>>
    /\ pos = 0
    /\ ParserInit
    /\ DecoderIdle
    /\ BuilderInit
    /\ ListenerIdle

Next ==
    \/ \E frame \in WholeFrames :
          ProcessWhole(frame) /\ UNCHANGED <<scriptVars, parserVars, decoderVars, builderVars, listenerVars>>
    \/ \E frame \in FragmentFrames :
          ProcessFrag(frame) /\ UNCHANGED <<scriptVars, parserVars, decoderVars, builderVars, listenerVars>>
    \/ \E id \in 1..MaxCaches :
          TimerFire(id) /\ UNCHANGED <<scriptVars, parserVars, decoderVars, builderVars, listenerVars>>
    \/ \E id \in 1..MaxCaches :
          TimerCallback(id) /\ UNCHANGED <<scriptVars, parserVars, decoderVars, builderVars, listenerVars>>

Spec == Init /\ [][Next]_vars

(***************************************************************************)
(* ParserSpec: StartParser reading arbitrary frames from its channel.      *)
(***************************************************************************)
ParserSpecInit ==
    /\ ReasmInit
    /\ script = <<>>
    /\ pos = 0
    /\ ParserInit
    /\ DecoderIdle
    /\ BuilderInit
    /\ ListenerIdle

ParserNext ==
    \E frame \in ParserFrames :
        StartParserStep(frame) /\ UNCHANGED <<reasmVars, scriptVars, decoderVars, builderVars, listenerVars>>

ParserSpec == ParserSpecInit /\ [][ParserNext]_vars

(***************************************************************************)
(* DecodeSpec: one registry decoder applied to one byte slice.             *)
(***************************************************************************)
DecodeInit ==
    /\ ReasmInit
    /\ script = <<>>
    /\ pos = 0
    /\ ParserInit
    /\ BuilderInit
    /\ ListenerIdle
    /\ decIn \in DecodeInputs
    /\ decOut = NotDecoded

DecodeNext == DecodeStep /\ UNCHANGED <<reasmVars, scriptVars, parserVars, builderVars, listenerVars>>

DecodeSpec == DecodeInit /\ [][DecodeNext]_vars

(***************************************************************************)
(* BuilderSpec: calls of UpdateData and BuildGeneralParamFrame.            *)
(***************************************************************************)
BuilderSpecInit ==
    /\ ReasmInit
    /\ script = <<>>
    /\ pos = 0
    /\ ParserInit
    /\ DecoderIdle
    /\ BuilderInit
    /\ ListenerIdle

BuilderNext ==
    \/ \E name \in BuilderNames, value \in BuilderValues :
          UpdateDataStep(name, value)
          /\ UNCHANGED <<reasmVars, scriptVars, parserVars, decoderVars, listenerVars>>
    \/ \E in \in BuilderInputs :
          BuildStep(in) /\ UNCHANGED <<reasmVars, scriptVars, parserVars, decoderVars, listenerVars>>

BuilderSpec == BuilderSpecInit /\ [][BuilderNext]_vars

(***************************************************************************)
(* ScriptSpec: one SDU of one sensor and one SSEQ.  Its first fragment     *)
(* (sequence number s) is given to ProcessFrame first, the fragments       *)
(* s+1..n (n flagged last) follow once each in an arbitrary order, all     *)
(* within the reassembly window (no timer expires).                        *)
(***************************************************************************)
ScriptStarts == {0, 1, 124}
ScriptData == {<<17>>, <<34, 35>>}
MiddleFlags == {1, 2}

\* the orders of arrival of a set of sequence numbers
RECURSIVE Orders(_)
Orders(Q) ==
    IF Q = {} THEN {<<>>}
    ELSE UNION { { <<q>> \o o : o \in Orders(Q \ {q}) } : q \in Q }

Scripts ==
    UNION { UNION {
        { [i \in 1..k |->
              IF i = 1 THEN Frame(KnownSensor, 1, 1, s, 0, d[1])
              ELSE Frame(KnownSensor, 1, 1, o[i - 1],
                         IF o[i - 1] = s + k - 1 THEN 3 ELSE mf, d[i])] :
            o \in Orders((s + 1)..(s + k - 1)), d \in [1..k -> ScriptData],
            mf \in MiddleFlags } : k \in 2..MaxFrags } : s \in ScriptStarts }

ScriptInit ==
    /\ ReasmInit
    /\ script \in Scripts
    /\ pos = 0
    /\ ParserInit
    /\ DecoderIdle
    /\ BuilderInit
    /\ ListenerIdle

Deliver ==
    /\ pos < Len(script)
    /\ ProcessFrag(script[pos + 1])
    /\ pos' = pos + 1
    /\ UNCHANGED <<script, parserVars, decoderVars, builderVars, listenerVars>>

ScriptNext == Deliver

ScriptSpec == ScriptInit /\ [][ScriptNext]_vars

(***************************************************************************)
(* TopSeqSpec: ProcessFrame given fragments whose 8-bit PSEQ lies at the   *)
(* top of its range and just past it, with the timers of their caches.     *)
(***************************************************************************)
TopSeqValues == {254, 255, 0}

TopSeqFrames ==
    { Frame(sid, 1, 0, pseq, flag, <<pseq>>) :
        sid \in Sensors, pseq \in TopSeqValues, flag \in FlagValues }

TopSeqNext ==
    \/ \E frame \in TopSeqFrames :
          ProcessFrag(frame) /\ UNCHANGED <<scriptVars, parserVars, decoderVars, builderVars, listenerVars>>
    \/ \E id \in 1..MaxCaches :
          TimerFire(id) /\ UNCHANGED <<scriptVars, parserVars, decoderVars, builderVars, listenerVars>>
    \/ \E id \in 1..MaxCaches :
          TimerCallback(id) /\ UNCHANGED <<scriptVars, parserVars, decoderVars, builderVars, listenerVars>>

TopSeqSpec == Init /\ [][TopSeqNext]_vars

(***************************************************************************)
(* TwoSensorSpec: ProcessFrame given the fragments of two sensors in any   *)
(* interleaving, with the timers of their caches.                          *)
(***************************************************************************)
BothSensors == {KnownSensor, OtherSensor}

\* the payload of a fragment names its sensor (last identifier byte) and its
\* sequence number
SensorData(sid, pseq) == <<sid[6] + pseq>>

TwoSensorFrames ==
    { Frame(sid, 1, 0, pseq, flag, SensorData(sid, pseq)) :
        sid \in BothSensors, pseq \in PSeqValues, flag \in {0, 1, 3} }

TwoSensorNext ==
    \/ \E frame \in WholeFrames :
          ProcessWhole(frame) /\ UNCHANGED <<scriptVars, parserVars, decoderVars, builderVars, listenerVars>>
    \/ \E frame \in TwoSensorFrames :
          ProcessFrag(frame) /\ UNCHANGED <<scriptVars, parserVars, decoderVars, builderVars, listenerVars>>
    \/ \E id \in 1..MaxCaches :
          TimerFire(id) /\ UNCHANGED <<scriptVars, parserVars, decoderVars, builderVars, listenerVars>>
    \/ \E id \in 1..MaxCaches :
          TimerCallback(id) /\ UNCHANGED <<scriptVars, parserVars, decoderVars, builderVars, listenerVars>>

TwoSensorSpec == Init /\ [][TwoSensorNext]_vars

\* the runtime fires a timer that is armed, and starts and schedules the
\* goroutine of its callback, which runs once it gets cacheMu
TimerFairness ==
    \A id \in 1..MaxCaches :
        /\ WF_vars(TimerFire(id) /\ UNCHANGED <<scriptVars, parserVars, decoderVars, builderVars, listenerVars>>)
        /\ WF_vars(TimerCallback(id) /\ UNCHANGED <<scriptVars, parserVars, decoderVars, builderVars, listenerVars>>)

TwoSensorFairSpec == TwoSensorSpec /\ TimerFairness

(***************************************************************************)
(* PipelineSpec: the reassembler fed one scripted SDU, next to StartParser  *)
(* reading its own channel of byte frames.  These are all the steps of the  *)
(* program that touch FrameCh or receive frames.                            *)
(***************************************************************************)
PipelineFrames ==
    { BuildFrame(KnownSensor, 0, 0, 0, <<>>, <<>>),
      BuildFrame(KnownSensor, 1, 0, 0, <<P_state>>, <<>>),
      BuildFrame(KnownSensor, 1, 1, 0, <<P_state>>, <<>>) }

PipelineInit == ScriptInit

PipelineNext ==
    \/ Deliver
    \/ \E frame \in PipelineFrames :
          StartParserStep(frame) /\ UNCHANGED <<reasmVars, scriptVars, decoderVars, builderVars, listenerVars>>

PipelineSpec == PipelineInit /\ [][PipelineNext]_vars

(***************************************************************************)
(* ListenerSpec: the listener goroutine and the parser goroutine of        *)
(* LpMpDriver.Start on their channel, for every content of the port.       *)
(***************************************************************************)
ListenerInit ==
    /\ ReasmInit
    /\ script = <<>>
    /\ pos = 0
    /\ ParserInit
    /\ DecoderIdle
    /\ BuilderInit
    /\ input \in ListenerInputs
    /\ portEnd \in {"eof", "err"}
    /\ portPos = 0
    /\ pending = <<>>
    /\ frameCh = <<>>
    /\ chClosed = FALSE
    /\ errSeen = FALSE
    /\ received = <<>>

ListenerSteps ==
    \/ ListenerRead /\ UNCHANGED <<reasmVars, scriptVars, parserVars, decoderVars, builderVars>>
    \/ ListenerSend /\ UNCHANGED <<reasmVars, scriptVars, parserVars, decoderVars, builderVars>>

ParserSteps ==
    \/ ParserReceive /\ UNCHANGED <<reasmVars, scriptVars, decoderVars, builderVars>>
    \/ ParserExit /\ UNCHANGED <<reasmVars, scriptVars, decoderVars, builderVars>>

ListenerNext == ListenerSteps \/ ParserSteps

\* both goroutines are scheduled whenever they can run
ListenerSpec ==
    ListenerInit /\ [][ListenerNext]_vars /\ WF_vars(ListenerSteps) /\ WF_vars(ParserSteps)

(***************************************************************************)
(* Claims about the fragment reassembly.                                   *)
(***************************************************************************)
RECURSIVE ConcatBySeq(_, _, _)
ConcatBySeq(scr, lo, hi) ==
    IF lo > hi THEN <<>>
    ELSE scr[CHOOSE i \in 1..Len(scr) : scr[i].PSEQ = lo].Data \o ConcatBySeq(scr, lo + 1, hi)

ScriptPayload(scr) == ConcatBySeq(scr, scr[1].PSEQ, scr[1].PSEQ + Len(scr) - 1)

\* C1: when the first fragment (sequence number s) of an SDU arrives first and
\* the fragments s+1..n (n flagged last) follow once each in any order, nothing
\* is emitted while a fragment is missing, and the arrival of the last missing
\* one emits exactly one frame whose Data is the payloads in the order s..n.
C1_OutOfOrderReassembly ==
    /\ pos < Len(script) => FrameCh = <<>> /\ blockedSend = <<>>
    /\ (0 < pos /\ pos < Len(script)) => KnownSensor \in DOMAIN sduCacheMap
    /\ (0 < pos /\ pos = Len(script)) =>
          /\ FrameCh = << Frame(KnownSensor, 0, script[1].SSEQ, 0, 0, ScriptPayload(script)) >>
          /\ blockedSend = <<>>
          /\ KnownSensor \notin DOMAIN sduCacheMap

\* the arrival order first(0), last(3), 2, 1 has been delivered completely
C1_Witness ==
    /\ Len(script) = 4 /\ pos = 4
    /\ script[1].PSEQ = 0 /\ script[2].PSEQ = 3 /\ script[3].PSEQ = 2 /\ script[4].PSEQ = 1
    /\ script[1].Data # script[4].Data
    /\ Len(FrameCh) = 1

\* C4: a first fragment that meets an existing cache of its sensor (same SSEQ
\* or another) stops the old timer, drops the old cache with everything it
\* buffered and stores a fresh cache built from the fragment alone; nothing
\* is emitted.
C4_FirstFragmentRestarts ==
    \A frame \in FragmentFrames :
        (frame.SensorID \in DOMAIN sduCacheMap /\ isFlagFirst(frame.Flag)) =>
            LET sid == frame.SensorID
                old == sduCacheMap[sid]
                R == ProcessFragment(ReasmState, frame)
            IN  /\ sid \in DOMAIN R.sduCacheMap
                /\ R.sduCacheMap[sid] =
                      [id |-> nextId, SSEQ |-> frame.SSEQ,
                       expectedSeq |-> (frame.PSEQ + 1) % 256, finalSeq |-> 0,
                       dataBuffer |-> frame.Data, outOfOrder |-> EmptyMap,
                       timer |-> TRUE]
                /\ old.id # nextId
                /\ nextId \in DOMAIN R.timers /\ R.timers[nextId].state = "armed"
                /\ ~(old.id \in DOMAIN R.timers /\ R.timers[old.id].state = "armed")
                /\ R.FrameCh = FrameCh
                /\ R.blockedSend = blockedSend
                /\ R.finalized = finalized

\* a restart has replaced a cache that was waiting for fragments
C4_Witness ==
    /\ KnownSensor \in DOMAIN sduCacheMap
    /\ sduCacheMap[KnownSensor].id = 2
    /\ DOMAIN timers = {2}
    /\ finalized = <<>> /\ timedOut = {} /\ staleRan = {}

\* C5: a timeout that finds its cache still stored under its sensor removes it
\* and emits nothing; no frame is ever emitted for a cache that timed out;
\* and a first fragment that finds no cache (as after the timeout) creates a
\* fresh cache from the fragment alone.
C5_TimeoutDiscards ==
    /\ \A id \in DOMAIN timers :
          LET sid == timers[id].sensor
              R == TimeoutBody(ReasmState, id)
          IN  (sid \in DOMAIN sduCacheMap /\ sduCacheMap[sid].id = id) =>
                 /\ sid \notin DOMAIN R.sduCacheMap
                 /\ R.FrameCh = FrameCh
                 /\ R.blockedSend = blockedSend
                 /\ R.finalized = finalized
    /\ \A i \in 1..Len(finalized) : finalized[i].id \notin timedOut
    /\ \A sid \in DOMAIN sduCacheMap : sduCacheMap[sid].id \notin timedOut
    /\ \A frame \in FragmentFrames :
          (frame.SensorID \notin DOMAIN sduCacheMap /\ isFlagFirst(frame.Flag)) =>
              LET R == ProcessFragment(ReasmState, frame)
              IN  /\ frame.SensorID \in DOMAIN R.sduCacheMap
                  /\ R.sduCacheMap[frame.SensorID] =
                        [id |-> nextId, SSEQ |-> frame.SSEQ,
                         expectedSeq |-> (frame.PSEQ + 1) % 256, finalSeq |-> 0,
                         dataBuffer |-> frame.Data, outOfOrder |-> EmptyMap,
                         timer |-> TRUE]
                  /\ nextId \in DOMAIN R.timers /\ R.timers[nextId].state = "armed"
                  /\ R.FrameCh = FrameCh

\* a cache timed out, and a later first fragment has created the next one
C5_Witness ==
    /\ timedOut = {1}
    /\ KnownSensor \in DOMAIN sduCacheMap
    /\ sduCacheMap[KnownSensor].id = 2
    /\ finalized = <<>>

\* C6: the callback of the timer armed for cache C removes no cache other than
\* C, whenever it runs: a cache stored under the same sensor after C was
\* finalized or superseded stays as it is.
C6_StaleTimerHarmless ==
    [][ \A id \in 1..MaxCaches :
           TimerCallback(id) =>
               \A sid \in DOMAIN sduCacheMap :
                   sduCacheMap[sid].id # id =>
                       /\ sid \in DOMAIN sduCacheMap'
                       /\ sduCacheMap'[sid] = sduCacheMap[sid] ]_vars

\* the callback of a superseded cache has run while its successor was stored
C6_Witness ==
    /\ staleRan = {1}
    /\ KnownSensor \in DOMAIN sduCacheMap
    /\ sduCacheMap[KnownSensor].id = 2
    /\ 1 \notin DOMAIN timers

\* C7: there is a fragment flag that is first and last at once, and a
\* fragment carrying it that finds no cache is finalized by the same call:
\* its payload is emitted and no cache remains.
C7_SingleFragmentFinalizes ==
    \A sid \in Sensors :
        (sid \notin DOMAIN sduCacheMap /\ cacheMu = "free" /\ Len(FrameCh) < FrameChCap) =>
            \E flag \in FlagValues :
                /\ isFlagFirst(flag) /\ isFlagLast(flag)
                /\ LET R == ProcessFragment(ReasmState, Frame(sid, 1, 0, 0, flag, DataOf(0)))
                   IN  /\ R.FrameCh = Append(FrameCh, Frame(sid, 0, 0, 0, 0, DataOf(0)))
                       /\ sid \notin DOMAIN R.sduCacheMap

\* the buffer holds the payloads of the sequence numbers first..expectedSeq-1
Contiguous(c) ==
    LET first == c.expectedSeq - Len(c.dataBuffer)
    IN  /\ first >= 0
        /\ first <= c.finalSeq
        /\ c.dataBuffer = [j \in 1..Len(c.dataBuffer) |-> 16 + first + j - 1]

\* C8: every cache handed to finalizeAndOutput has seen a last fragment
\* (finalSeq # 0), has expectedSeq > finalSeq, and its buffer is the payloads
\* of the first fragment through the terminal one without a gap.
C8_FinalizeOnlyWhenComplete ==
    \A i \in 1..Len(finalized) :
        /\ finalized[i].finalSeq # 0
        /\ finalized[i].expectedSeq > finalized[i].finalSeq
        /\ Contiguous(finalized[i])

\* an SDU of three fragments whose last fragment came early has been emitted
C8_Witness ==
    /\ Len(finalized) = 1
    /\ Len(finalized[1].dataBuffer) = 3
    /\ Len(FrameCh) = 1
    /\ FrameCh[1].Data = finalized[1].dataBuffer

\* the three cases in which ProcessFrame drops a fragment
DropCase(frame) ==
    LET sid == frame.SensorID
    IN  /\ ~isFlagFirst(frame.Flag)
        /\ \/ sid \notin DOMAIN sduCacheMap
           \/ /\ sid \in DOMAIN sduCacheMap
              /\ \/ frame.SSEQ # sduCacheMap[sid].SSEQ
                 \/ frame.PSEQ < sduCacheMap[sid].expectedSeq

\* C13: a fragment that is not first and finds no cache, or a cache of another
\* SSEQ, or a cache of its SSEQ that already expects a later sequence number,
\* changes no cache and no timer and emits nothing.
C13_DropsChangeNothing ==
    \A frame \in FragmentFrames :
        DropCase(frame) =>
            LET R == ProcessFragment(ReasmState, frame)
            IN  /\ R.sduCacheMap = sduCacheMap
                /\ R.timers = timers
                /\ R.FrameCh = FrameCh
                /\ R.blockedSend = blockedSend
                /\ R.finalized = finalized
                /\ R.cacheMu = cacheMu

\* a cache that holds a buffered fragment and expects sequence number 1 is
\* stored, so fragments of each drop case can arrive (a dropped fragment leaves
\* this very state)
C13_Witness ==
    /\ KnownSensor \in DOMAIN sduCacheMap
    /\ sduCacheMap[KnownSensor].expectedSeq = 1
    /\ DOMAIN sduCacheMap[KnownSensor].outOfOrder = {2}
    /\ \E f \in FragmentFrames : DropCase(f) /\ f.SSEQ = sduCacheMap[KnownSensor].SSEQ
    /\ \E f \in FragmentFrames : DropCase(f) /\ f.SSEQ # sduCacheMap[KnownSensor].SSEQ
    /\ ENABLED (\E f \in FragmentFrames : DropCase(f) /\ ProcessFrag(f))

\* C14: a step of ProcessFrame on a frame whose FragInd is not 1 appends that
\* very frame to FrameCh and leaves the cache table, the timers and the mutex
\* as they are, with or without a cache stored for the frame's sensor.
C14_UnfragmentedForwarded ==
    [][ \A frame \in WholeFrames :
           ProcessWhole(frame) =>
               /\ FrameCh' = Append(FrameCh, frame)
               /\ UNCHANGED <<sduCacheMap, timers, cacheMu, blockedSend, nextId>> ]_vars

\* an unfragmented frame is on FrameCh, as it was handed in, beside a cache of
\* the same sensor that is still waiting with its timer armed
C14_Witness ==
    /\ FrameCh = << Frame(KnownSensor, 0, 1, 2, 3, <<51>>) >>
    /\ KnownSensor \in DOMAIN sduCacheMap
    /\ sduCacheMap[KnownSensor].outOfOrder # EmptyMap
    /\ timers[sduCacheMap[KnownSensor].id].state = "armed"

(***************************************************************************)
(* StartParser: claims checked under ParserSpec.                           *)
(***************************************************************************)
ChecksumValid(frame) ==
    /\ Len(frame) >= 2
    /\ CRC16(SubSeq(frame, 1, Len(frame) - 2))
         = 256 * frame[Len(frame) - 1] + frame[Len(frame)]

SensorKnown(frame) == Len(frame) >= 6 /\ SubSeq(frame, 1, 6) = KnownSensor

StoredValue(name, value) ==
    [device |-> "WaterLevelSensor01", name |-> name, value |-> value]

\* 1.5 as a single: sign 0, exponent 127, fraction 0.5
OneAndAHalf == [kind |-> "float32", sign |-> 0, exp |-> 127, mant |-> 4194304]

\* C2: the parameter walk of a frame that passed the length, checksum, sensor,
\* packet-type and fragment checks never indexes the frame outside its bytes,
\* so StartParser never crashes on a frame, whatever the lengthFlag of the
\* parameter header that ends the body.
C2_WalkStaysInsideFrame ==
    /\ lastOutcome # "panic"
    /\ parserState = "running"

\* C3: a valid one-parameter frame of the known sensor whose field header is
\* type code (feature 0, code 163) with lengthFlag 0, followed by the bit
\* pattern of 1.5, makes StartParser store exactly one value, and the value
\* table then holds water-level = 1.5 for the sensor's device.
C3_TypeCode163StoresWaterLevel ==
    \A frame \in ParserFrames :
        ( /\ Len(frame) = 15
          /\ ChecksumValid(frame)
          /\ SensorKnown(frame)
          /\ frame[7] = 16
          /\ 256 * frame[8] + frame[9] = 4 * 163 + 0
          /\ SubSeq(frame, 10, 13) = <<0, 0, 192, 63>> )
        => LET stored == ParseResult[frame].stored
               vm == ApplyStores(valuesMap, stored)
           IN  /\ stored = <<StoredValue("water-level", OneAndAHalf)>>
               /\ vm["WaterLevelSensor01"]["water-level"] = OneAndAHalf

\* C9: a frame shorter than 9 bytes, with a wrong checksum or from an unknown
\* sensor stores nothing and leaves StartParser running, ready for every later
\* frame; the 9-byte frame of the known sensor with paramCount 0 and a valid
\* checksum is accepted and stores nothing.
C9_RejectedFramesStoreNothing ==
    /\ \A frame \in ParserFrames :
          /\ (Len(frame) < 9 \/ ~ChecksumValid(frame) \/ ~SensorKnown(frame))
                => /\ ParseResult[frame].stored = <<>>
                   /\ ParseResult[frame].outcome \in {"short", "crc", "unknownSensor"}
          /\ (Len(frame) = 9 /\ ChecksumValid(frame) /\ SensorKnown(frame)
                /\ frame[7] = 0)
                => /\ ParseResult[frame].stored = <<>>
                   /\ ParseResult[frame].outcome = "ok"
    /\ lastOutcome \in {"short", "crc", "unknownSensor"}
          => lastStored = <<>> /\ parserState = "running"

C9_Witness ==
    /\ lastOutcome \in {"short", "crc", "unknownSensor"}
    /\ lastStored = <<>>
    /\ valuesMap # EmptyMap
    /\ parserState = "running"

\* what each complete parameter is to leave in the value table
StoredBy(p) ==
    CASE p = P_state -> <<StoredValue("state", [kind |-> "uint8", v |-> 1])>>
      [] p = P_batt -> <<StoredValue("battery-level", [kind |-> "uint8", v |-> 85])>>
      [] p = P_water3 -> <<StoredValue("water-level", OneAndAHalf)>>
      [] p = P_battLong -> <<>>
      [] p = P_unknown -> <<>>

RECURSIVE StoredByAll(_)
StoredByAll(ps) == IF ps = <<>> THEN <<>> ELSE StoredBy(ps[1]) \o StoredByAll(Tail(ps))

\* C10: in a frame of complete parameters, a parameter of an unregistered type
\* (P_unknown) or one whose decode fails (P_battLong) stores nothing, counts as
\* parsed, and the walk resumes right after its value bytes: every sibling,
\* before or after, is stored in the value table, and the walk ends on the
\* checksum.
C10_BadParameterSkipped ==
    \A ps \in ParamLists, tail \in {<<>>, P_batt, P_water3} :
        LET all == IF tail = <<>> THEN ps ELSE Append(ps, tail)
            frame == BuildFrame(KnownSensor, Len(all), 0, 0, ps, tail)
            r == ParseResult[frame]
        IN  /\ r.outcome = "ok"
            /\ r.parsed = Len(all)
            /\ r.stored = StoredByAll(all)
            /\ ApplyStores(valuesMap, r.stored) = ApplyStores(valuesMap, StoredByAll(all))
            /\ r.idx = Len(frame) - 2

C10_Witness ==
    /\ lastOutcome = "ok"
    /\ lastParsed = 3
    /\ lastStored = StoredBy(P_state) \o StoredBy(P_batt)
    /\ valuesMap = ApplyStores(EmptyMap, lastStored)

\* tails at which the walk meets one of its two bounds tests
BoundsTails == {<<>>, P_len1Only, P_len2Only, P_len3Short, P_len2Over, P_stray}

\* C11: when the walk of a frame stops at a bounds test at parameter k, the
\* values of the parameters 1..k-1 are stored and stay stored, nothing is
\* stored for parameter k or a later one, and StartParser keeps running.
C11_BoundsFailureKeepsEarlierValues ==
    /\ \A ps \in ParamLists, tail \in BoundsTails :
          LET frame == BuildFrame(KnownSensor, Len(ps) + 1, 0, 0, ps, tail)
              r == ParseResult[frame]
          IN  /\ r.outcome \in {"headerBounds", "dataBounds"}
              /\ r.parsed = Len(ps)
              /\ r.stored = StoredByAll(ps)
              /\ ApplyStores(valuesMap, r.stored) = ApplyStores(valuesMap, StoredByAll(ps))
    /\ lastOutcome \in {"headerBounds", "dataBounds"} =>
          /\ parserState = "running"
          /\ \A i \in 1..Len(lastStored) :
                /\ lastStored[i].device \in DOMAIN valuesMap
                /\ lastStored[i].name \in DOMAIN valuesMap[lastStored[i].device]
                /\ valuesMap[lastStored[i].device][lastStored[i].name] = lastStored[i].value

\* a frame whose walk stored a value and then failed a bounds test at its
\* third parameter has been handled
C11_Witness ==
    /\ lastOutcome = "dataBounds"
    /\ lastParsed = 2
    /\ lastStored = StoredBy(P_state)
    /\ valuesMap = ApplyStores(EmptyMap, lastStored)
    /\ parserState = "running"

(***************************************************************************)
(* Claims about the pipeline, checked under PipelineSpec.                  *)
(***************************************************************************)
\* some step of the program takes the frame at the head of FrameCh
TakesFromFrameCh == PipelineNext /\ FrameCh # <<>> /\ FrameCh' = Tail(FrameCh)

\* C12: an SDU that the reassembler has put on FrameCh is consumed by the
\* decoding stage: whenever FrameCh holds a frame, a step that takes it from
\* the channel is possible.
C12_FrameChIsDrained ==
    FrameCh # <<>> => ENABLED TakesFromFrameCh

(***************************************************************************)
(* Claims about the registry decoders, checked under DecodeSpec.           *)
(***************************************************************************)
\* C15: the decode function of every registry entry returns a value exactly
\* when the slice has the entry's ByteLen, and an error for any other length.
C15_DecodersRequireExactLength ==
    decOut.done => (decOut.err <=> Len(decIn.data) # paramMap[decIn.key].ByteLen)

(***************************************************************************)
(* Claims about BuildGeneralParamFrame, checked under BuilderSpec.         *)
(***************************************************************************)
\* what the caller must not pass when it sets parameters
InvalidSetRequest(in) ==
    \/ Len(in.paramsOrder) = 0
    \/ Len(in.paramsOrder) > 16
    \/ \E i \in 1..Len(in.paramsOrder) :
          LET name == in.paramsOrder[i]
          IN  \/ name \notin {"Temperature", "Humidity"}
              \/ name \notin DOMAIN in.paramsMap
              \/ (name = "Temperature" /\ Len(in.paramsMap[name]) # 4)
              \/ (name = "Humidity" /\ Len(in.paramsMap[name]) # 1)

\* C16: a call that sets parameters returns an error and no frame when the
\* number of parameters is 0 or above the maximum, when a name is unknown or
\* has no value, or when a value has not the length of its descriptor.
C16_BuilderRejectsBadRequests ==
    (buildOut.done /\ buildIn.requestSetFlag = 1 /\ InvalidSetRequest(buildIn)) =>
        (buildOut.err /\ buildOut.frame = <<>>)

\* a set request whose second value has the wrong length has been refused
C16_Witness ==
    /\ buildOut.done /\ buildOut.err /\ buildOut.frame = <<>>
    /\ buildIn.requestSetFlag = 1
    /\ buildIn.paramsOrder = <<"Temperature", "Humidity">>
    /\ DOMAIN buildIn.paramsMap = {"Temperature", "Humidity"}
    /\ buildIn.paramsMap["Temperature"] = <<1, 2, 3, 4>>
    /\ buildIn.paramsMap["Humidity"] = <<1, 2, 3, 4>>


\* C17: a frame of the known sensor with a valid checksum whose packetType
\* (the low 3 bits of the header byte) is neither 0 nor 2 stores no value,
\* whatever its paramCount and parameter bytes, and StartParser keeps running
\* with the value table as it was.
C17_OtherPacketTypesIgnored ==
    /\ \A frame \in ParserFrames :
          (Len(frame) >= 9 /\ ChecksumValid(frame) /\ SensorKnown(frame)
              /\ frame[7] % 8 \notin {0, 2})
          => /\ ParseResult[frame].stored = <<>>
             /\ ParseResult[frame].outcome = "packetType"
             /\ ApplyStores(valuesMap, ParseResult[frame].stored) = valuesMap
    /\ lastOutcome = "packetType" => lastStored = <<>> /\ parserState = "running"

C17_Witness ==
    /\ lastOutcome = "packetType"
    /\ lastStored = <<>>
    /\ valuesMap # EmptyMap
    /\ parserState = "running"


\* C18: a timer callback that has fired can always take cacheMu and run to its
\* end, also while a ProcessFrame call that finalizes an SDU is blocked in its
\* send on a full FrameCh: in every state, each fired timer's callback is able
\* to take its step.
C18_TimerCallbackNeverBlockedByOutput ==
    \A id \in DOMAIN timers :
        timers[id].state = "fired" => ENABLED TimerCallback(id)


\* C19: as long as a cache object stays in the table, every step that changes
\* its expectedSeq makes it strictly larger, also for sequence numbers at the
\* top of the 8-bit range.
C19_ExpectedSeqOnlyIncreases ==
    [][\A sid \in Sensors :
          ( /\ sid \in DOMAIN sduCacheMap
            /\ sid \in DOMAIN sduCacheMap'
            /\ sduCacheMap'[sid].id = sduCacheMap[sid].id
            /\ sduCacheMap'[sid].expectedSeq # sduCacheMap[sid].expectedSeq )
          => sduCacheMap'[sid].expectedSeq > sduCacheMap[sid].expectedSeq]_vars


\* a step of ProcessFrame on a middle or last fragment of the SDU that the
\* sensor's cache is collecting: behind, at or ahead of expectedSeq
OnExistingCache(frame) ==
    /\ FragmentBranch(ReasmState, frame) \in {"dropStale", "ahead", "inOrder"}
    /\ ProcessFrag(frame)

\* the identities of the caches in the table
CacheIds(m) == { m[sid].id : sid \in DOMAIN m }

\* C20 as stated: no middle or last fragment of an existing cache, whatever
\* its place in the sequence, stops, restarts or replaces a timer.
C20_FragmentsNeverTouchTimer ==
    [][\A frame \in FragmentFrames : OnExistingCache(frame) => timers' = timers]_vars

\* C20: a cache gets its one timer, armed, in the step that creates it, and
\* has it as long as it is in the table; a middle or last fragment that leaves
\* the cache in the table leaves every timer as it was (an expired one is not
\* armed again), and one that completes the SDU removes the cache and does
\* nothing to the timers but stop the timer of that cache.
C20_TimerFixedAtCreation ==
    [][/\ \A id \in CacheIds(sduCacheMap') :
             /\ id \in DOMAIN timers'
             /\ id \notin CacheIds(sduCacheMap)
                  => id \notin DOMAIN timers /\ timers'[id].state = "armed"
       /\ \A frame \in FragmentFrames :
             OnExistingCache(frame) =>
                LET sid == frame.SensorID
                    id == sduCacheMap[sid].id
                IN  IF sid \in DOMAIN sduCacheMap'
                    THEN /\ sduCacheMap'[sid].id = id
                         /\ timers' = timers
                    ELSE /\ Len(finalized') = Len(finalized) + 1
                         /\ finalized'[Len(finalized')].id = id
                         /\ timers' \in {timers, MapDel(timers, id)}
                         /\ id \in DOMAIN timers' => timers[id].state = "fired"]_vars

\* fragments were appended to a cache whose timer had expired: it stays expired
C20_Witness ==
    \E sid \in DOMAIN sduCacheMap :
        /\ Len(sduCacheMap[sid].dataBuffer) >= 2
        /\ sduCacheMap[sid].id \in DOMAIN timers
        /\ timers[sduCacheMap[sid].id].state = "fired"


\* C21: the cache table and the caches are read and written only by a call
\* that has taken cacheMu, and the lookup, the changes and the removal of one
\* call form one critical section: while a call is inside its section (it
\* holds cacheMu, suspended in the send of finalizeAndOutput) no other
\* ProcessFrame call and no timer callback reads or changes the table, a
\* cache or the bookkeeping of the timers.
C21_TableAccessUnderLock ==
    [][cacheMu = "held" =>
          /\ UNCHANGED <<sduCacheMap, finalized, timedOut, staleRan, nextId,
                         blockedSend, cacheMu>>
          /\ DOMAIN timers' = DOMAIN timers]_vars

\* a call is suspended inside its critical section while a timer callback
\* has been started
C21_Witness ==
    /\ cacheMu = "held"
    /\ blockedSend # <<>>
    /\ \E id \in DOMAIN timers : timers[id].state = "fired"


\* the frames that ReadFrame has returned so far
FramesRead == SubSeq(input, 1, portPos)

OneParamFrame(frame) ==
    /\ Len(frame) >= 11
    /\ ChecksumValid(frame)
    /\ SensorKnown(frame)
    /\ frame[7] = 16
    /\ ParseResult[frame].outcome = "ok"

\* the 14-bit typeCode of the field header: header >> 2
TypeCodeOf(frame) == (256 * frame[8] + frame[9]) \div 4

\* the value bytes of the one parameter
ValueBytesOf(frame) ==
    CASE frame[9] % 4 = 0 -> SubSeq(frame, 10, 13)
      [] frame[9] % 4 = 1 -> SubSeq(frame, 11, 10 + frame[10])
      [] frame[9] % 4 = 2 -> SubSeq(frame, 12, 11 + 256 * frame[10] + frame[11])
      [] frame[9] % 4 = 3 -> SubSeq(frame, 13, 12 + 65536 * frame[10] + 256 * frame[11]
                                                    + frame[12])

NamesStored(frame) ==
    { ParseResult[frame].stored[i].name : i \in DOMAIN ParseResult[frame].stored }

\* C23: the descriptor found for a parameter depends on the typeCode of its
\* field header only: two one-parameter frames whose headers have the same
\* typeCode and different lengthFlags, with the same value bytes, are stored
\* under the same resource name (or both not at all).
C23_LookupIgnoresLengthFlag ==
    \A f1, f2 \in ParserFrames :
        ( /\ OneParamFrame(f1) /\ OneParamFrame(f2)
          /\ TypeCodeOf(f1) = TypeCodeOf(f2)
          /\ ValueBytesOf(f1) = ValueBytesOf(f2) )
        => /\ NamesStored(f1) = NamesStored(f2)
           /\ DOMAIN ApplyStores(valuesMap, ParseResult[f1].stored)
                = DOMAIN ApplyStores(valuesMap, ParseResult[f2].stored)


\* C24: every byte the walk consumes for a parameter, field header, explicit
\* length bytes and value bytes alike, lies before the two checksum bytes:
\* whenever the walk of a frame ends without a crash, idx is at most
\* len(frame)-2.
C24_WalkStopsBeforeChecksum ==
    lastOutcome \in {"ok", "headerBounds", "dataBounds"} => lastOverrun = 0


\* the sequence number that a payload byte of a fragment names (DataOf)
SeqOf(byte) == byte - 16

\* C25: the cache handed to finalize holds the payloads of the fragments from
\* the first one's sequence number through the terminal one's, each once, in
\* order, and nothing after the terminal one; and a cache that has recorded
\* its finalSeq keeps it whatever fragment arrives later.
C25_EmittedPayloadEndsAtTerminal ==
    [][/\ \A k \in DOMAIN finalized' :
             LET c == finalized'[k]
             IN  /\ \A i \in DOMAIN c.dataBuffer :
                        SeqOf(c.dataBuffer[i]) = SeqOf(c.dataBuffer[1]) + i - 1
                 /\ SeqOf(c.dataBuffer[Len(c.dataBuffer)]) = c.finalSeq
       /\ \A sid \in DOMAIN sduCacheMap :
             ( /\ sid \in DOMAIN sduCacheMap'
               /\ sduCacheMap'[sid].id = sduCacheMap[sid].id
               /\ sduCacheMap[sid].finalSeq # 0 )
             => sduCacheMap'[sid].finalSeq = sduCacheMap[sid].finalSeq]_vars


\* C26: whatever the sequence number of the first fragment, when the fragments
\* that follow it arrive one after the other, the step that appends the
\* last-flagged one finalizes the SDU: the cache leaves the table and is
\* handed to finalizeAndOutput, also when the last sequence number is 255 or
\* lies past the wrap to 0.
C26_LastFragmentInOrderFinalizes ==
    [][\A frame \in TopSeqFrames \cup FragmentFrames :
          ( /\ FragmentBranch(ReasmState, frame) = "inOrder"
            /\ isFlagLast(frame.Flag)
            /\ ProcessFrag(frame) )
          => /\ Len(finalized') = Len(finalized) + 1
             /\ finalized'[Len(finalized')].id = sduCacheMap[frame.SensorID].id
             /\ frame.SensorID \notin DOMAIN sduCacheMap']_vars


\* frames in the output that finalizeAndOutput has built
IsReassembled(f) == f \notin WholeFrames

\* C27: a cache is finalized at most once and is out of the table from then
\* on; the frames sent by finalizeAndOutput are, in order, one per finalized
\* cache, with the sensor's identifier, FragInd 0, the cache's SSEQ and its
\* buffer; and once the sensor's cache is finalized, a late or repeated middle
\* or last fragment changes nothing: no output, no cache.
C27_FinalizedOnceAndRemoved ==
    /\ \A j, k \in DOMAIN finalized : finalized[j].id = finalized[k].id => j = k
    /\ \A k \in DOMAIN finalized :
          \A sid \in DOMAIN sduCacheMap : sduCacheMap[sid].id # finalized[k].id
    /\ SelectSeq(FrameCh \o blockedSend, IsReassembled)
          = [k \in DOMAIN finalized |->
                Frame(KnownSensor, 0, finalized[k].SSEQ, 0, 0, finalized[k].dataBuffer)]
    /\ \A frame \in FragmentFrames :
          ( /\ finalized # <<>>
            /\ frame.SensorID \notin DOMAIN sduCacheMap
            /\ ~isFlagFirst(frame.Flag) )
          => ProcessFragment(ReasmState, frame) = ReasmState

\* an SDU of two fragments has been finalized and sent, and no cache is left
C27_Witness ==
    /\ Len(finalized) = 1
    /\ Len(finalized[1].dataBuffer) >= 2
    /\ sduCacheMap = EmptyMap
    /\ cacheMu = "free"
    /\ FrameCh = <<Frame(KnownSensor, 0, finalized[1].SSEQ, 0, 0, finalized[1].dataBuffer)>>


\* what the table and the timers hold for one sensor
EntryOf(m, t, sid) ==
    IF sid \in DOMAIN m
    THEN [cache |-> <<m[sid]>>,
          timer |-> IF m[sid].id \in DOMAIN t THEN <<t[m[sid].id]>> ELSE <<>>]
    ELSE [cache |-> <<>>, timer |-> <<>>]

\* the payload bytes that fragments of a sensor carry
BytesOf(sid) == { SensorData(sid, pseq)[1] : pseq \in PSeqValues }

RangeOf(seq) == { seq[i] : i \in DOMAIN seq }

\* C28: the table holds one cache per sensor, each with its own identity and
\* its own timer; a step of ProcessFrame on a fragment of sensor A, and the
\* timeout of a cache of A, leave the cache of every other sensor B, with its
\* buffered fragments, finalSeq and timer, as they were; so a cache and an
\* emitted frame of B hold payload bytes of B's fragments only.
C28_SensorsAreIsolated ==
    [][/\ \A frame \in TwoSensorFrames :
             ProcessFrag(frame) =>
                \A B \in BothSensors \ {frame.SensorID} :
                    EntryOf(sduCacheMap', timers', B) = EntryOf(sduCacheMap, timers, B)
       /\ \A id \in DOMAIN timers :
             TimerCallback(id) =>
                \A B \in BothSensors \ {timers[id].sensor} :
                    EntryOf(sduCacheMap', timers', B) = EntryOf(sduCacheMap, timers, B)
       /\ \A A, B \in DOMAIN sduCacheMap' :
             /\ A # B => sduCacheMap'[A].id # sduCacheMap'[B].id
             /\ sduCacheMap'[A].id \in DOMAIN timers'
                   => timers'[sduCacheMap'[A].id].sensor = A
             /\ RangeOf(sduCacheMap'[A].dataBuffer) \subseteq BytesOf(A)
       /\ \A i \in DOMAIN FrameCh' :
             IsReassembled(FrameCh'[i])
                => RangeOf(FrameCh'[i].Data) \subseteq BytesOf(FrameCh'[i].SensorID)]_vars

\* both sensors have a cache, the one of the known sensor with two fragments
\* appended, while the timer of the other sensor's cache has expired
C28_Witness ==
    /\ DOMAIN sduCacheMap = BothSensors
    /\ Len(sduCacheMap[KnownSensor].dataBuffer) = 2
    /\ sduCacheMap[OtherSensor].id \in DOMAIN timers
    /\ timers[sduCacheMap[OtherSensor].id].state = "fired"


\* C29: under fair scheduling of the timers no cache stays in the table for
\* ever: every cache that is in the table is removed from it at some later
\* moment, whatever fragments arrive and whether or not FrameCh is full.
C29_EveryCacheEventuallyRemoved ==
    \A id \in 1..MaxCaches :
        (id \in CacheIds(sduCacheMap)) ~> (id \notin CacheIds(sduCacheMap))

\* the same, for as long as no call is blocked in its send holding cacheMu
CacheRemovedUnlessSendBlocked ==
    \A id \in 1..MaxCaches :
        (id \in CacheIds(sduCacheMap)) ~> (id \notin CacheIds(sduCacheMap) \/ cacheMu = "held")


\* bytes of a parameter list with one entry per name: 2 of head16 + the data
RECURSIVE EntryBytes(_, _)
EntryBytes(tbl, order) ==
    IF order = <<>> THEN 0
    ELSE 2 + tbl[order[1]].length + EntryBytes(tbl, Tail(order))

\* C30: a frame built in set mode for m names, 1 <= m <= maxParams, has m in
\* the upper 4 bits of its header byte, fragmentIndicator 0 and the control
\* packet type in the lower 4, and a parameter list of exactly m entries.
C30_HeaderCarriesParamCount ==
    (buildOut.done /\ ~buildOut.err /\ buildIn.requestSetFlag = 1) =>
        LET m == Len(buildIn.paramsOrder)
            head == buildOut.frame[7]
        IN  /\ m >= 1 /\ m <= maxParams
            /\ head \div 16 = m
            /\ (head \div 8) % 2 = 0
            /\ head % 8 = packetTypeControl
            /\ Len(buildOut.frame) = 6 + 1 + 1 + EntryBytes(table, buildIn.paramsOrder) + 2


\* C31: whenever ReadFrame can return no further frame, the scanner having
\* stopped at the end of the input or on a read error, the listener closes
\* frameCh and ends, and StartParser ends once it has taken the frames left in
\* the channel; the listener does not go on reading for ever.
C31_ListenerAndParserTerminate ==
    <>(chClosed /\ frameCh = <<>> /\ parserState = "finished")

\* the same for a port that ends with the end of its input
TerminateAfterEOF ==
    (portEnd = "eof") => <>(chClosed /\ frameCh = <<>> /\ parserState = "finished")

====
